---- MODULE Spec2Model ----
(***************************************************************************)
(* Chunked upload handling of django_drf_filepond/uploaders.py             *)
(* (FilepondChunkedFileUploader): the POST / PATCH / HEAD handlers, the    *)
(* TemporaryUploadChunked and TemporaryUpload tables, and the files kept   *)
(* under storage.base_location.                                            *)
(*                                                                         *)
(* A PATCH request is handled in three steps, the places where the handler *)
(* touches shared state: loading the record and checking the request       *)
(* (ReceiveChunk), storage.save of the chunk (StoreChunk), and tuc.save()  *)
(* followed by the reassembly (SaveRecord).  Spec runs one request at a    *)
(* time, FaultSpec lets the two writes of a PATCH fail, LossSpec lets      *)
(* chunk files disappear, ConcSpec interleaves the steps of several        *)
(* requests, and InitiateSpec interleaves POST requests taken in the steps *)
(* ReceiveNew, MakeDirs and CreateRecord.                                  *)
(***************************************************************************)
EXTENDS Integers, Sequences, FiniteSets, TLC

VARIABLES
    tucs,      \* the TemporaryUploadChunked table: a set of rows
    uploads,   \* the TemporaryUpload table: a set of rows
    dirs,      \* the directories that exist, as paths
    files,     \* the files under storage.base_location
    pc,        \* per request handler: "idle", "store", "save" or "done",
               \* and "mkdir" or "create" in a POST taken in steps
    loc,       \* per request handler: the locals of a PATCH in progress, with
               \* (history) the tables' rows and the files when it was
               \* received, or the locals of a POST taken in steps
    resp,      \* per request handler: the response being returned, with
               \* (history) the PATCH request it acknowledges, whether the
               \* request repeated the one acknowledged just before, and
               \* the checks the request does not pass
    faults,    \* number of record updates the database failed to commit
    acked,     \* history: the request before this one, when it was a PATCH
               \* answered 200
    accepted,  \* history: per upload, the chunks whose record update was saved
    declared   \* history: per upload, the Upload-Length given to the POST

vars == <<tucs, uploads, dirs, files, pc, loc, resp, faults,
          acked, accepted, declared>>

store == <<tucs, uploads, dirs, files>>

----------------------------------------------------------------------------
(* Bounds *)

MaxTotal == 2    \* largest Upload-Length and Upload-Offset a request carries
MaxChunks == 2   \* PATCH requests are received while last_chunk < MaxChunks
MaxFaults == 1   \* failed record commits per run

Workers == {1, 2}
SeqWorkers == {1}

UploadIds == {"u1"}
\* The upload ids a POST may carry in addition: one that names the directory
\* of u1 in another way, one that leaves the storage root, and one that
\* names a directory next to the root whose name starts with the root's name
PostIds == UploadIds \cup {"./u1", "../tmp", "../filepond_x"}
FileIds == {"f1"}
FileNames == {"a.txt", "b.txt"}
Users == {"None", "alice"}

\* A request header is <<>> when absent or empty (both are falsy in Python)
\* and <<v>> when it carries the text of v.
NoHeader == <<>>
NewLengthHeaders == {NoHeader} \cup {<<n>> : n \in -1..MaxTotal}
LengthHeaders == {NoHeader} \cup {<<n>> : n \in 1..MaxTotal}
OffsetHeaders == {NoHeader} \cup {<<n>> : n \in 0..MaxTotal}
NameHeaders == {NoHeader} \cup {<<n>> : n \in FileNames}

\* request.data of a PATCH: bytes, str or something else (a parsed dict).
\* The elements of a bytes value are bytes; those of a str are characters,
\* 1 an ASCII character and 2 a character outside ASCII.
PayloadTypes == {"bytes", "str", "dict"}
PayloadData(type) ==
    IF type = "bytes" THEN {<<>>, <<1>>, <<2>>, <<1, 2>>}
    ELSE IF type = "str" THEN {<<1>>, <<2>>}
    ELSE {<<>>}
Payloads ==
    UNION {{[type |-> t, data |-> d] : d \in PayloadData(t)} :
           t \in PayloadTypes}

\* A PATCH for an upload id, or the one with an empty id
BlankIdRequest ==
    [chunk_id |-> "", uoffset |-> <<0>>, ulength |-> <<1>>,
     uname |-> <<"a.txt">>, data |-> [type |-> "bytes", data |-> <<>>]]
ChunkRequests ==
    [chunk_id : UploadIds, uoffset : OffsetHeaders, ulength : LengthHeaders,
     uname : NameHeaders, data : Payloads]
    \cup {BlankIdRequest}

NoRequest == <<>>
NoLocals == <<>>

----------------------------------------------------------------------------
(* Python and Django helpers *)

RECURSIVE Concat(_)
Concat(ss) == IF ss = <<>> THEN <<>> ELSE Head(ss) \o Concat(Tail(ss))

RECURSIVE SumLen(_)
SumLen(ss) == IF ss = <<>> THEN 0 ELSE Len(Head(ss)) + SumLen(Tail(ss))

\* Python truthiness of a header value: `not x` holds for None and ''
Truthy(h) == h # NoHeader

\* int(header)
IntOf(h) == h[1]

\* The bytes a text-mode file write produces for one character (UTF-8):
\* one byte for an ASCII character, two for the other one.
Utf8(c) == IF c = 1 THEN <<c>> ELSE <<c, c>>

\* What storage.save writes for BytesIO(file_data) / StringIO(file_data)
FileBytes(p) ==
    IF p.type = "str" THEN Concat([i \in 1..Len(p.data) |-> Utf8(p.data[i])])
    ELSE p.data

\* TemporaryUploadChunked.objects.get(upload_id=...)
HasRow(table, id) == \E r \in table : r.upload_id = id
GetRow(table, id) == CHOOSE r \in table : r.upload_id = id

\* Model.save(): UPDATE the row with this primary key, INSERT when none
SaveRow(table, row) ==
    {r \in table : r.upload_id # row.upload_id} \cup {row}

\* Model.delete()
DeleteRow(table, row) == {r \in table : r.upload_id # row.upload_id}

\* os.path.exists / open(...).read() of <dir>/<file_id>_<idx>; idx 0 is
\* <dir>/<file_id>, alt > 0 a name storage.save made up
FileAt(fs, dir, idx, alt) ==
    {f \in fs : f.dir = dir /\ f.idx = idx /\ f.alt = alt}
FileExists(fs, dir, idx) == FileAt(fs, dir, idx, 0) # {}
ReadFile(fs, dir, idx) == (CHOOSE f \in FileAt(fs, dir, idx, 0) : TRUE).data

\* Storage.get_available_name: the name asked for when it is free, else the
\* name with a fresh suffix
AvailableAlt(fs, dir, idx) ==
    CHOOSE a \in 0..Cardinality(fs) :
        /\ FileAt(fs, dir, idx, a) = {}
        /\ \A b \in 0..(a - 1) : FileAt(fs, dir, idx, b) # {}

\* storage.save(name, content): never overwrites an existing file
StorageSave(fs, dir, idx, bytes) ==
    fs \cup {[dir |-> dir, idx |-> idx,
              alt |-> AvailableAlt(fs, dir, idx), data |-> bytes]}

----------------------------------------------------------------------------
(* POST: _handle_new_chunk_upload *)

BaseLocation == <<"srv", "filepond">>

\* The segments of a relative path: the pieces between its "/"
Segments(rel) ==
    CASE rel = "./u1" -> <<".", "u1">>
      [] rel = "../tmp" -> <<"..", "tmp">>
      [] rel = "../filepond_x" -> <<"..", "filepond_x">>
      [] OTHER -> <<rel>>

\* os.path.normpath on the segments of an absolute path: "." is dropped and
\* ".." removes the segment before it (none at the top)
RECURSIVE NormPath(_, _)
NormPath(done, segs) ==
    IF segs = <<>> THEN done
    ELSE IF Head(segs) = "." THEN NormPath(done, Tail(segs))
    ELSE IF Head(segs) = ".."
        THEN NormPath(IF done = <<>> THEN <<>>
                      ELSE SubSeq(done, 1, Len(done) - 1), Tail(segs))
    ELSE NormPath(Append(done, Head(segs)), Tail(segs))

\* os.path.abspath(os.path.join(base_loc, upload_id)), for a relative
\* upload_id: the segments of the directory
AbsJoin(base, upload_id) == NormPath(<<>>, base \o Segments(upload_id))

\* os.path.join(storage.base_location, tuc.upload_dir), as the directory
\* the file system finds under that path
Join(base, rel) == NormPath(<<>>, base \o Segments(rel))

\* The spelling of a path segment, in pieces of text
Spelling(seg) ==
    IF seg = "filepond_x" THEN <<"filepond", "_x">> ELSE <<seg>>

\* The text of an absolute path: "/" and the spelling of each segment
RECURSIVE PathText(_)
PathText(path) ==
    IF path = <<>> THEN <<>>
    ELSE <<"/">> \o Spelling(Head(path)) \o PathText(Tail(path))

\* str.startswith: the text begins with the prefix
StartsWith(text, prefix) ==
    /\ Len(text) >= Len(prefix)
    /\ SubSeq(text, 1, Len(prefix)) = prefix

\* The column defaults of TemporaryUploadChunked
RowDefaults ==
    [last_chunk |-> 0, offset |-> 0, upload_name |-> "",
     upload_complete |-> FALSE]

\* TemporaryUploadChunked(upload_id=..., file_id=..., upload_dir=upload_id,
\*                        total_size=ulen, uploaded_by=...)
NewRow(upload_id, file_id, ulen, user) ==
    [upload_id |-> upload_id, file_id |-> file_id, upload_dir |-> upload_id,
     total_size |-> IntOf(ulen), uploaded_by |-> user,
     last_chunk |-> RowDefaults.last_chunk, offset |-> RowDefaults.offset,
     upload_name |-> RowDefaults.upload_name,
     upload_complete |-> RowDefaults.upload_complete]

\* Lines 122-145 and 154-158: the checks of the POST handler before it
\* creates the directory, "OK" when they pass
NewUploadChecks(file_obj, ulen, upload_id, ds) ==
    IF file_obj # "{}" THEN "InvalidFileObject"
    ELSE IF ~Truthy(ulen) THEN "NoLength"
    ELSE IF ~StartsWith(PathText(AbsJoin(BaseLocation, upload_id)),
                        PathText(BaseLocation))
        THEN "StorageUnavailable"
    ELSE IF BaseLocation \notin ds THEN "StorageUnavailable"
    ELSE "OK"

\* Variant of MakeDirsRaises for os.makedirs(chunk_dir, exist_ok=True)
MakeDirsExistOk(chunk_dir, ds) == FALSE

\* os.makedirs(chunk_dir, exist_ok=False) raises FileExistsError
MakeDirsRaises(chunk_dir, ds) == chunk_dir \in ds

\* The response of the POST handler, "OK" when the directory and the record
\* are to be created
NewUploadVerdict(file_obj, ulen, upload_id, ds) ==
    IF NewUploadChecks(file_obj, ulen, upload_id, ds) # "OK"
        THEN NewUploadChecks(file_obj, ulen, upload_id, ds)
    ELSE IF MakeDirsRaises(AbsJoin(BaseLocation, upload_id), ds)
        THEN "StorageUnavailable"
    ELSE "OK"

\* A response: the handler's method, its outcome ("OK" for 200, else the
\* error) and the Upload-Offset header of a HEAD response; for a PATCH
\* also what the run remembers of its request
Response(op, kind, offset) ==
    [op |-> op, kind |-> kind, offset |-> offset,
     req |-> NoRequest, repeat |-> FALSE, fails |-> {}]

NoResponse == Response("", "", NoHeader)

HandleNewChunkUpload(w, upload_id, file_id, file_obj, ulen, user) ==
    /\ pc[w] = "idle"
    /\ LET verdict == NewUploadVerdict(file_obj, ulen, upload_id, dirs)
       IN /\ resp' = [resp EXCEPT ![w] = Response("POST", verdict, NoHeader)]
          /\ IF verdict = "OK"
             THEN /\ dirs' = dirs \cup {AbsJoin(BaseLocation, upload_id)}
                  /\ tucs' = SaveRow(tucs, NewRow(upload_id, file_id, ulen, user))
                  /\ declared' = [declared EXCEPT ![upload_id] = ulen]
                  /\ accepted' = [accepted EXCEPT ![upload_id] = <<>>]
             ELSE UNCHANGED <<dirs, tucs, declared, accepted>>
    /\ pc' = [pc EXCEPT ![w] = "done"]
    /\ acked' = NoRequest
    /\ UNCHANGED <<uploads, files, loc, faults>>

\* The POST handler in the steps that other handlers can interleave with.
\* Lines 122-145: the checks up to os.path.exists(base_loc)
ReceiveNew(w, upload_id, file_id, file_obj, ulen, user) ==
    /\ pc[w] = "idle"
    /\ LET verdict == NewUploadChecks(file_obj, ulen, upload_id, dirs)
       IN IF verdict = "OK"
          THEN /\ pc' = [pc EXCEPT ![w] = "mkdir"]
               /\ loc' = [loc EXCEPT ![w] =
                      <<[upload_id |-> upload_id, file_id |-> file_id,
                         ulen |-> ulen, user |-> user,
                         chunk_dir |-> AbsJoin(BaseLocation, upload_id)]>>]
               /\ resp' = [resp EXCEPT ![w] = Response("POST", "", NoHeader)]
          ELSE /\ pc' = [pc EXCEPT ![w] = "done"]
               /\ loc' = [loc EXCEPT ![w] = NoLocals]
               /\ resp' = [resp EXCEPT ![w] =
                               Response("POST", verdict, NoHeader)]
    /\ acked' = NoRequest
    /\ UNCHANGED <<store, faults, accepted, declared>>

\* Lines 146-153: os.makedirs(chunk_dir, exist_ok=False). The directories
\* above chunk_dir exist, since base_loc does.
MakeDirs(w) ==
    /\ pc[w] = "mkdir"
    /\ IF MakeDirsRaises(loc[w][1].chunk_dir, dirs)
       THEN /\ pc' = [pc EXCEPT ![w] = "done"]
            /\ resp' = [resp EXCEPT ![w].kind = "StorageUnavailable"]
            /\ UNCHANGED dirs
       ELSE /\ dirs' = dirs \cup {loc[w][1].chunk_dir}
            /\ pc' = [pc EXCEPT ![w] = "create"]
            /\ UNCHANGED resp
    /\ UNCHANGED loc
    /\ UNCHANGED <<tucs, uploads, files, faults, acked, accepted, declared>>

\* Lines 162-168: the record is created and saved
CreateRecord(w) ==
    /\ pc[w] = "create"
    /\ LET l == loc[w][1]
       IN /\ tucs' = SaveRow(tucs, NewRow(l.upload_id, l.file_id, l.ulen,
                                          l.user))
          /\ declared' = [declared EXCEPT ![l.upload_id] = l.ulen]
          /\ accepted' = [accepted EXCEPT ![l.upload_id] = <<>>]
    /\ pc' = [pc EXCEPT ![w] = "done"]
    /\ loc' = [loc EXCEPT ![w] = NoLocals]
    /\ resp' = [resp EXCEPT ![w].kind = "OK"]
    /\ UNCHANGED <<uploads, dirs, files, faults, acked>>

----------------------------------------------------------------------------
(* HEAD: _handle_chunk_restart *)

RestartVerdict(upload_id, table, ds) ==
    IF ~HasRow(table, upload_id) THEN "UnknownUpload"
    ELSE IF Join(BaseLocation, GetRow(table, upload_id).upload_dir) \notin ds
        THEN "StorageInconsistent"
    ELSE "OK"

HandleChunkRestart(w, upload_id) ==
    /\ pc[w] = "idle"
    /\ LET verdict == RestartVerdict(upload_id, tucs, dirs)
       IN resp' = [resp EXCEPT ![w] =
              Response("HEAD", verdict,
                       IF verdict = "OK"
                       THEN <<GetRow(tucs, upload_id).offset>>
                       ELSE NoHeader)]
    /\ pc' = [pc EXCEPT ![w] = "done"]
    /\ acked' = NoRequest
    /\ UNCHANGED <<store, loc, faults, accepted, declared>>

----------------------------------------------------------------------------
(* PATCH: _handle_chunk_upload *)

\* (not uoffset) or (not ulength) or (not uname)
MetadataMissing(req) ==
    ~Truthy(req.uoffset) \/ ~Truthy(req.ulength) \/ ~Truthy(req.uname)

\* Variant of SizeChanged that objects to a larger size only
SizeGrown(req, tuc) == IntOf(req.ulength) > tuc.total_size

\* int(ulength) != tuc.total_size
SizeChanged(req, tuc) == IntOf(req.ulength) # tuc.total_size

\* if tuc.last_chunk == 0: tuc.upload_name = uname   (on the loaded object)
AdoptName(tuc, req) ==
    IF tuc.last_chunk = 0
    THEN [tuc EXCEPT !.upload_name = req.uname[1]]
    ELSE tuc

\* Variant of NameChanged that never compares the names
NameNeverCompared(req, tuc) == FALSE

\* else: if tuc.upload_name != uname
NameChanged(req, tuc) ==
    tuc.last_chunk # 0 /\ tuc.upload_name # req.uname[1]

\* Variant of OffsetWrong that objects to an offset behind the record only
OffsetBehind(req, tuc) == IntOf(req.uoffset) < tuc.offset

\* not (int(uoffset) == tuc.offset)
OffsetWrong(req, tuc) == ~(IntOf(req.uoffset) = tuc.offset)

\* type(file_data) == bytes / type(file_data) == str
DataRecognised(payload) == payload.type \in {"bytes", "str"}

\* os.path.exists(upload_dir)
UploadDirExists(tuc, ds) == Join(BaseLocation, tuc.upload_dir) \in ds

\* Variant of ChunkVerdict that compares the offset before the size and name
ChunkVerdictOffsetFirst(req, table, ds) ==
    IF req.chunk_id = "" THEN "MissingChunkId"
    ELSE IF ~HasRow(table, req.chunk_id) THEN "UnknownUpload"
    ELSE LET tuc == GetRow(table, req.chunk_id)
         IN IF MetadataMissing(req) THEN "MissingMetadata"
            ELSE IF OffsetWrong(req, tuc) THEN "OffsetMismatch"
            ELSE IF SizeChanged(req, tuc) THEN "SizeMismatch"
            ELSE IF NameChanged(req, tuc) THEN "NameMismatch"
            ELSE IF ~DataRecognised(req.data) THEN "UnsupportedPayload"
            ELSE IF ~UploadDirExists(tuc, ds) THEN "StorageInconsistent"
            ELSE "Proceed"

\* The response the checks of a PATCH lead to, "Proceed" when the chunk is
\* to be stored
ChunkVerdict(req, table, ds) ==
    IF req.chunk_id = "" THEN "MissingChunkId"
    ELSE IF ~HasRow(table, req.chunk_id) THEN "UnknownUpload"
    ELSE LET tuc == GetRow(table, req.chunk_id)
         IN IF MetadataMissing(req) THEN "MissingMetadata"
            ELSE IF SizeChanged(req, tuc) THEN "SizeMismatch"
            ELSE IF NameChanged(req, tuc) THEN "NameMismatch"
            ELSE IF OffsetWrong(req, tuc) THEN "OffsetMismatch"
            ELSE IF ~DataRecognised(req.data) THEN "UnsupportedPayload"
            ELSE IF ~UploadDirExists(tuc, ds) THEN "StorageInconsistent"
            ELSE "Proceed"

\* The checks of lines 176-230 that the request does not pass, each taken
\* on its own: a header is compared with the record when the header is
\* present and the record exists
FailedChecks(req, table) ==
    (IF NoHeader \in {req.uoffset, req.ulength, req.uname}
     THEN {"MissingMetadata"} ELSE {})
    \cup (IF req.data.type \notin {"bytes", "str"}
          THEN {"UnsupportedPayload"} ELSE {})
    \cup
    (IF ~HasRow(table, req.chunk_id) THEN {"UnknownUpload"}
     ELSE LET tuc == GetRow(table, req.chunk_id)
          IN (IF req.ulength # NoHeader /\ req.ulength[1] # tuc.total_size
              THEN {"SizeMismatch"} ELSE {})
             \cup (IF /\ req.uname # NoHeader /\ tuc.last_chunk # 0
                      /\ req.uname[1] # tuc.upload_name
                   THEN {"NameMismatch"} ELSE {})
             \cup (IF req.uoffset # NoHeader /\ req.uoffset[1] # tuc.offset
                   THEN {"OffsetMismatch"} ELSE {}))

\* The locals the handler carries from the checks to the writes
ChunkLocals(req, table) ==
    [req |-> req,
     tuc |-> AdoptName(GetRow(table, req.chunk_id), req),
     fd |-> FileBytes(req.data),
     file_data_len |-> Len(req.data.data)]

\* Lines 171-238: load the record and check the request against it.
ReceiveChunk(w, req) ==
    /\ pc[w] = "idle"
    /\ HasRow(tucs, req.chunk_id) =>
           GetRow(tucs, req.chunk_id).last_chunk < MaxChunks
    /\ LET verdict == ChunkVerdict(req, tucs, dirs)
       IN IF verdict = "Proceed"
          THEN /\ pc' = [pc EXCEPT ![w] = "store"]
               /\ loc' = [loc EXCEPT ![w] =
                              <<ChunkLocals(req, tucs), tucs, files>>]
               /\ resp' = [resp EXCEPT ![w] =
                      [Response("PATCH", "", NoHeader)
                           EXCEPT !.repeat = (acked = <<req>>),
                                  !.fails = FailedChecks(req, tucs)]]
          ELSE /\ pc' = [pc EXCEPT ![w] = "done"]
               /\ resp' = [resp EXCEPT ![w] =
                      [Response("PATCH", verdict, NoHeader)
                           EXCEPT !.repeat = (acked = <<req>>),
                                  !.fails = FailedChecks(req, tucs)]]
               /\ UNCHANGED loc
    /\ acked' = NoRequest
    /\ UNCHANGED <<store, faults, accepted, declared>>

\* upload_file: <tuc.upload_dir>/<file_id>_<last_chunk + 1>
ChunkIndex(tuc) == tuc.last_chunk + 1

\* Line 240: storage.save(upload_file, fd)
StoreChunk(w) ==
    /\ pc[w] = "store"
    /\ LET l == loc[w][1]
       IN files' = StorageSave(files, l.tuc.upload_dir, ChunkIndex(l.tuc), l.fd)
    /\ pc' = [pc EXCEPT ![w] = "save"]
    /\ UNCHANGED <<tucs, uploads, dirs, loc, resp, faults,
                   acked, accepted, declared>>

\* Line 240 raises (disk full, permissions): the exception leaves the
\* handler, nothing is written and the record is not saved.
StoreChunkFails(w) ==
    /\ pc[w] = "store"
    /\ pc' = [pc EXCEPT ![w] = "done"]
    /\ loc' = [loc EXCEPT ![w] = NoLocals]
    /\ resp' = [resp EXCEPT ![w].kind = "StorageFailure"]
    /\ UNCHANGED <<store, faults, acked, accepted, declared>>

\* Variant of Advance that counts the chunk and leaves the offset
AdvanceChunkOnly(tuc, file_data_len) ==
    [tuc EXCEPT !.last_chunk = tuc.last_chunk + 1]

\* Lines 242-245: the new chunk number, offset and completion flag
Advance(tuc, file_data_len) ==
    LET offset == tuc.offset + file_data_len
    IN [tuc EXCEPT !.last_chunk = tuc.last_chunk + 1,
                   !.offset = offset,
                   !.upload_complete =
                       IF offset = tuc.total_size THEN TRUE
                       ELSE tuc.upload_complete]

----------------------------------------------------------------------------
(* _store_upload *)

\* The chunk numbers 1..last_chunk whose file is not there
MissingChunks(tuc, fs) ==
    {i \in 1..tuc.last_chunk : ~FileExists(fs, tuc.upload_dir, i)}

\* Variant of Min that picks the largest element
Max(S) == CHOOSE x \in S : \A y \in S : x >= y

\* The first chunk number the loop of lines 272-276 finds missing
Min(S) == CHOOSE x \in S : \A y \in S : x <= y

\* Variant of ReadChunks that reads from the last chunk file to the first
ReadChunksBackwards(tuc, fs) ==
    Concat([i \in 1..tuc.last_chunk |->
                ReadFile(fs, tuc.upload_dir, tuc.last_chunk + 1 - i)])

\* Lines 271-279: the chunk files read in the order 1..last_chunk
ReadChunks(tuc, fs) ==
    Concat([i \in 1..tuc.last_chunk |-> ReadFile(fs, tuc.upload_dir, i)])

\* Lines 286-290: tu.save() stores memfile as <upload_id>/<file_id> through
\* the storage and writes the TemporaryUpload row
ArtifactRow(tuc, alt) ==
    [upload_id |-> tuc.upload_id, file_id |-> tuc.file_id, file |-> alt,
     upload_name |-> tuc.upload_name, uploaded_by |-> tuc.uploaded_by]

\* Variant of StoredFileOk that does not compare the size
StoredFileThere(tuc, fs) == FileExists(fs, tuc.upload_dir, 0)

\* Lines 293-295: the file at <chunk_dir>/<file_id> is there and has the
\* declared size
StoredFileOk(tuc, fs) ==
    /\ FileExists(fs, tuc.upload_dir, 0)
    /\ Len(ReadFile(fs, tuc.upload_dir, 0)) = tuc.total_size

\* Variant of RemoveChunks that leaves the last chunk file
RemoveChunksButLast(tuc, fs) ==
    {f \in fs : ~(f.dir = tuc.upload_dir /\ f.alt = 0
                  /\ f.idx \in 1..(tuc.last_chunk - 1))}

\* Lines 301-303: os.remove of <file_id>_1 .. <file_id>_<last_chunk>
RemoveChunks(tuc, fs) ==
    {f \in fs : ~(f.dir = tuc.upload_dir /\ f.alt = 0
                  /\ f.idx \in 1..tuc.last_chunk)}

\* _store_upload(tuc): the exception raised ("" when none) and the files
\* and tables it leaves
StoreUpload(tuc, fs, ups, table) ==
    IF ~tuc.upload_complete
    THEN [error |-> "IncompleteUpload", chunk |-> 0,
          files |-> fs, uploads |-> ups, tucs |-> table]
    ELSE IF MissingChunks(tuc, fs) # {}
    THEN [error |-> "ChunkMissing", chunk |-> Min(MissingChunks(tuc, fs)),
          files |-> fs, uploads |-> ups, tucs |-> table]
    ELSE LET fs1 == StorageSave(fs, tuc.upload_id, 0, ReadChunks(tuc, fs))
             ups1 == SaveRow(ups,
                         ArtifactRow(tuc, AvailableAlt(fs, tuc.upload_id, 0)))
         IN IF ~StoredFileOk(tuc, fs1)
            THEN [error |-> "SizeVerificationFailed", chunk |-> 0,
                  files |-> fs1, uploads |-> ups1, tucs |-> table]
            ELSE [error |-> "", chunk |-> 0,
                  files |-> RemoveChunks(tuc, fs1), uploads |-> ups1,
                  tucs |-> DeleteRow(table, tuc)]

\* Lines 242-259: advance the record, tuc.save(), and rebuild the file when
\* the upload is complete.
SaveRecord(w) ==
    /\ pc[w] = "save"
    /\ LET l == loc[w][1]
           tuc == Advance(l.tuc, l.file_data_len)
           saved == SaveRow(tucs, tuc)
           built == StoreUpload(tuc, files, uploads, saved)
       IN /\ accepted' = [accepted EXCEPT ![tuc.upload_id] =
                 Append(@, [uoffset |-> IntOf(l.req.uoffset),
                            bytes |-> l.fd])]
          /\ IF tuc.upload_complete
             THEN /\ tucs' = built.tucs
                  /\ uploads' = built.uploads
                  /\ files' = built.files
                  /\ resp' = [resp EXCEPT
                         ![w].kind = IF built.error = "" THEN "OK"
                                     ELSE built.error,
                         ![w].req = IF built.error = "" THEN <<l.req>>
                                    ELSE NoRequest]
                  /\ acked' = IF built.error = "" THEN <<l.req>> ELSE NoRequest
             ELSE /\ tucs' = saved
                  /\ resp' = [resp EXCEPT ![w].kind = "OK",
                                          ![w].req = <<l.req>>]
                  /\ acked' = <<l.req>>
                  /\ UNCHANGED <<uploads, files>>
    /\ pc' = [pc EXCEPT ![w] = "done"]
    /\ loc' = [loc EXCEPT ![w] = NoLocals]
    /\ UNCHANGED <<dirs, faults, declared>>

\* Line 246 raises (the database does not commit): the exception leaves the
\* handler with the chunk stored and the record as it was.
SaveRecordFails(w) ==
    /\ pc[w] = "save"
    /\ faults < MaxFaults
    /\ faults' = faults + 1
    /\ pc' = [pc EXCEPT ![w] = "done"]
    /\ loc' = [loc EXCEPT ![w] = NoLocals]
    /\ resp' = [resp EXCEPT ![w].kind = "CommitFailure"]
    /\ UNCHANGED <<store, acked, accepted, declared>>

\* The response has been sent: the handler is free for the next request.
Return(w) ==
    /\ pc[w] = "done"
    /\ pc' = [pc EXCEPT ![w] = "idle"]
    /\ resp' = [resp EXCEPT ![w] = NoResponse]
    /\ UNCHANGED <<store, loc, faults, acked, accepted, declared>>

----------------------------------------------------------------------------
(* Specifications *)

Init ==
    /\ tucs = {}
    /\ uploads = {}
    /\ dirs \in {{BaseLocation}, {}}
    /\ files = {}
    /\ pc = [w \in Workers |-> "idle"]
    /\ loc = [w \in Workers |-> NoLocals]
    /\ resp = [w \in Workers |-> NoResponse]
    /\ faults = 0
    /\ acked = NoRequest
    /\ accepted = [u \in PostIds |-> <<>>]
    /\ declared = [u \in PostIds |-> NoHeader]

\* One body of each type
OneOfEachType ==
    {[type |-> "bytes", data |-> <<>>], [type |-> "str", data |-> <<1>>],
     [type |-> "dict", data |-> <<>>]}

\* The PATCH requests a run tries, of the requests in reqs: every request
\* the checks let through, and every rejected request with one body of each
\* type (the body of a rejected request is never read past its type).
Tried(reqs) ==
    {req \in reqs :
        ChunkVerdict(req, tucs, dirs) # "Proceed" => req.data \in OneOfEachType}

\* One request of handler w, or one step of its PATCH
Handle(w) ==
    \/ \E u \in UploadIds, f \in FileIds, o \in {"{}", "file"},
          n \in NewLengthHeaders, by \in Users :
           HandleNewChunkUpload(w, u, f, o, n, by)
    \/ \E req \in Tried(ChunkRequests) : ReceiveChunk(w, req)
    \/ StoreChunk(w)
    \/ SaveRecord(w)
    \/ \E u \in UploadIds : HandleChunkRestart(w, u)
    \/ Return(w)

\* A write of handler w's PATCH fails
Fail(w) ==
    \/ StoreChunkFails(w)
    \/ SaveRecordFails(w)

\* One request at a time, on storage and a database that do not fail
Next == \E w \in SeqWorkers : Handle(w)

Spec == Init /\ [][Next]_vars

\* One request at a time, on storage and a database that may fail
FaultNext == \E w \in SeqWorkers : Handle(w) \/ Fail(w)

FaultSpec == Init /\ [][FaultNext]_vars

\* The requests of interleaved runs: a POST declaring MaxTotal bytes, and
\* PATCH requests that carry all metadata, that size and a one-byte body
ConcRequests ==
    {req \in ChunkRequests :
        /\ req.chunk_id # ""
        /\ ~MetadataMissing(req)
        /\ req.ulength = <<MaxTotal>>
        /\ req.data.type = "bytes"
        /\ Len(req.data.data) = 1}

\* One request of handler w, or one step of its PATCH, in an interleaved run
ConcHandle(w) ==
    \/ \E u \in UploadIds, f \in FileIds :
           HandleNewChunkUpload(w, u, f, "{}", <<MaxTotal>>, "alice")
    \/ \E req \in Tried(ConcRequests) : ReceiveChunk(w, req)
    \/ StoreChunk(w)
    \/ SaveRecord(w)
    \/ \E u \in UploadIds : HandleChunkRestart(w, u)
    \/ Return(w)

\* The requests of several handlers, interleaved
ConcNext == \E w \in Workers : ConcHandle(w)

ConcSpec == Init /\ [][ConcNext]_vars

\* One step of handler w in a run of interleaved POST requests, for every
\* upload id of PostIds; one handler also takes the PATCH requests of
\* ConcRequests, one at a time
InitiateHandle(w) ==
    \/ \E u \in PostIds, f \in FileIds :
           ReceiveNew(w, u, f, "{}", <<MaxTotal>>, "alice")
    \/ MakeDirs(w)
    \/ CreateRecord(w)
    \/ /\ w \in SeqWorkers
       /\ \E req \in Tried(ConcRequests) : ReceiveChunk(w, req)
    \/ StoreChunk(w)
    \/ SaveRecord(w)
    \/ Return(w)

InitiateNext == \E w \in Workers : InitiateHandle(w)

InitiateSpec == Init /\ [][InitiateNext]_vars

\* Something other than the handlers removes a chunk file: before a
\* request, or between the steps of a PATCH. (A file removed while a response
\* is on its way is gone for the next request, as one removed just after.)
LoseChunk ==
    /\ \A w \in Workers : pc[w] # "done"
    /\ \E f \in files :
           /\ f.idx > 0 /\ f.alt = 0
           /\ files' = files \ {f}
    /\ UNCHANGED <<tucs, uploads, dirs, pc, loc, resp, faults,
                   acked, accepted, declared>>

\* The PATCH requests of the runs with disappearing chunk files: those of
\* one client, which sends one file name
LossRequests == {req \in ChunkRequests : req.uname # <<"b.txt">>}

\* One request of handler w, or one step of its PATCH, in such a run
LossHandle(w) ==
    \/ \E u \in UploadIds, f \in FileIds, o \in {"{}", "file"},
          n \in NewLengthHeaders, by \in Users :
           HandleNewChunkUpload(w, u, f, o, n, by)
    \/ \E req \in Tried(LossRequests) : ReceiveChunk(w, req)
    \/ StoreChunk(w)
    \/ SaveRecord(w)
    \/ \E u \in UploadIds : HandleChunkRestart(w, u)
    \/ Return(w)

\* One request at a time, on storage whose chunk files may disappear
LossNext == (\E w \in SeqWorkers : LossHandle(w)) \/ LoseChunk

LossSpec == Init /\ [][LossNext]_vars

----------------------------------------------------------------------------
(* Properties *)

Busy(w) == pc[w] \in {"store", "save"}

\* The bytes of the chunks accepted so far for upload u, in the order of
\* their acceptance
AcceptedBytes(u) == [i \in 1..Len(accepted[u]) |-> accepted[u][i].bytes]

\* Every accepted chunk of u claimed the number of bytes accepted before it
OffsetsTrack(u) ==
    \A i \in 1..Len(accepted[u]) :
        accepted[u][i].uoffset = SumLen(SubSeq(AcceptedBytes(u), 1, i - 1))

\* The stored files of the TemporaryUpload row of upload u
ArtifactFiles(u) ==
    {f \in files : \E tu \in uploads :
        /\ tu.upload_id = u
        /\ f.dir = u /\ f.idx = 0 /\ f.alt = tu.file}

Acknowledges(w) ==
    /\ pc[w] = "done" /\ resp[w].op = "PATCH" /\ resp[w].kind = "OK"
    /\ resp[w].req # NoRequest
    /\ Len(resp[w].req[1].data.data) > 0

\* C2: two PATCH requests for the same upload that claim the same offset
\* are never both answered 200.
C2_OneWinnerPerOffset ==
    \A w \in Workers, v \in Workers :
        (w # v /\ Acknowledges(w) /\ Acknowledges(v)
         /\ resp[w].req[1].chunk_id = resp[v].req[1].chunk_id)
        => resp[w].req[1].uoffset # resp[v].req[1].uoffset

\* C3: a PATCH that ends in a rejection or in a failure of the storage or
\* of the database leaves the TemporaryUploadChunked rows and the files as
\* they were when the request was received.
C3_RejectedChangesNothing ==
    [][\A w \in Workers :
        (/\ pc[w] \in {"idle", "store", "save"} /\ pc'[w] = "done"
         /\ resp'[w].op = "PATCH"
         /\ resp'[w].kind \in
               {"MissingChunkId", "UnknownUpload", "MissingMetadata",
                "SizeMismatch", "NameMismatch", "OffsetMismatch",
                "UnsupportedPayload", "StorageInconsistent",
                "StorageFailure", "CommitFailure"})
        => IF pc[w] = "idle"
           THEN tucs' = tucs /\ files' = files
           ELSE tucs' = loc[w][2] /\ files' = loc[w][3]]_vars

\* Handler w takes up a PATCH in this step
TakesUpChunk(w) == pc[w] = "idle" /\ pc'[w] # "idle" /\ resp'[w].op = "PATCH"

\* A PATCH request for record r carrying r's size and the given headers
RequestFor(r, o, n, d) ==
    [chunk_id |-> r.upload_id, uoffset |-> o, ulength |-> <<r.total_size>>,
     uname |-> n, data |-> d]

\* The bodies the PATCH that handler w takes up in this step can have: the
\* one it keeps to store, or one of each type when it answers at once (the
\* checks read no more of a body than its type)
BodiesTaken(w) ==
    IF pc'[w] = "store" THEN {loc'[w][1].req.data} ELSE OneOfEachType

\* The name header n is present and, from the second chunk on, r's name
NameFits(r, n) ==
    n # NoHeader /\ (r.last_chunk > 0 => n[1] = r.upload_name)

\* Handler w answers the request it takes up with kind, and the rows and
\* files stay as they are
RejectedWith(w, kind) ==
    /\ pc'[w] = "done"
    /\ resp'[w].kind = kind
    /\ tucs' = tucs /\ files' = files

\* C4: a PATCH for an existing record whose Upload-Offset is not the offset
\* of the record, the other metadata being consistent with the record, is
\* answered OffsetMismatch and changes neither the rows nor the files.
C4_WrongOffsetRejected ==
    [][\A w \in Workers :
        TakesUpChunk(w) =>
        \A r \in tucs, o \in OffsetHeaders, n \in NameHeaders, d \in Payloads :
            (/\ o # NoHeader /\ o[1] # r.offset
             /\ NameFits(r, n)
             /\ ReceiveChunk(w, RequestFor(r, o, n, d)))
            => RejectedWith(w, "OffsetMismatch")]_vars

\* A PATCH of a record that holds a chunk has been answered OffsetMismatch.
C4_Witness ==
    \E w \in Workers, r \in tucs :
        /\ pc[w] = "done" /\ resp[w].op = "PATCH"
        /\ resp[w].kind = "OffsetMismatch"
        /\ r.last_chunk = 1 /\ r.offset = 1 /\ r.upload_name # ""

\* C5: the offset of a record declared with a positive size stays within
\* 0 .. total_size.
C5_OffsetWithinTotal ==
    \A r \in tucs : r.total_size > 0 => 0 <= r.offset /\ r.offset <= r.total_size

\* C6: a record declared with a positive size is marked complete exactly
\* when its offset is its total size.
C6_CompleteIffAllReceived ==
    \A r \in tucs :
        r.total_size > 0 => (r.upload_complete <=> r.offset = r.total_size)

\* The chunk files in the directory of record r: their numbers and name
\* suffixes
ChunkFilesOf(r) ==
    {<<f.idx, f.alt>> : f \in {g \in files : g.dir = r.upload_dir /\ g.idx > 0}}

\* C7: while no PATCH of an upload is in progress, the chunk files in its
\* directory are <file_id>_1 .. <file_id>_<last_chunk> and no others.
C7_ChunkFilesMatchLastChunk ==
    \A r \in tucs :
        (\A w \in Workers :
             Busy(w) => loc[w][1].req.chunk_id # r.upload_id)
        => ChunkFilesOf(r) = {<<i, 0>> : i \in 1..r.last_chunk}

\* Handler w takes up, unchanged, the PATCH that has just been acknowledged,
\* the upload being incomplete
Repeats(w) ==
    /\ TakesUpChunk(w)
    /\ acked # NoRequest
    /\ \E r \in tucs : r.upload_id = acked[1].chunk_id /\ ~r.upload_complete
    /\ ReceiveChunk(w, acked[1])

\* C8 as stated: the PATCH just acknowledged, sent again unchanged while the
\* upload is incomplete, is answered OffsetMismatch and changes nothing,
\* whatever its payload.
C8_RepeatRejected ==
    [][\A w \in Workers :
        Repeats(w) => RejectedWith(w, "OffsetMismatch")]_vars

\* C8: the PATCH just acknowledged, sent again unchanged while the upload is
\* incomplete, is answered OffsetMismatch and changes nothing, whenever its
\* payload is not empty.
C8_RepeatOfDataRejected ==
    [][\A w \in Workers :
        (Repeats(w) /\ Len(acked[1].data.data) > 0)
        => RejectedWith(w, "OffsetMismatch")]_vars

\* The repeat of an acknowledged PATCH has been answered OffsetMismatch.
C8_Witness ==
    \E w \in Workers :
        /\ pc[w] = "done" /\ resp[w].op = "PATCH" /\ resp[w].repeat
        /\ resp[w].kind = "OffsetMismatch"

\* C9: a PATCH for an existing record that carries the three headers and an
\* Upload-Length other than the size of the record is answered SizeMismatch,
\* whatever its offset, and changes neither the rows nor the files; and the
\* size of every record is the Upload-Length of the POST that created it.
C9_WrongSizeRejected ==
    [][/\ \A w \in Workers :
            (TakesUpChunk(w) /\ "SizeMismatch" \in resp'[w].fails) =>
            \A r \in tucs, l \in LengthHeaders, o \in OffsetHeaders,
               n \in NameHeaders, d \in BodiesTaken(w) :
                (/\ l # NoHeader /\ l[1] # r.total_size
                 /\ o # NoHeader /\ n # NoHeader
                 /\ ReceiveChunk(w, [RequestFor(r, o, n, d)
                                         EXCEPT !.ulength = l]))
                => RejectedWith(w, "SizeMismatch")
       /\ \A r \in tucs' :
            declared'[r.upload_id] # NoHeader
            /\ r.total_size = declared'[r.upload_id][1]]_vars

\* A PATCH with the offset of the record and another size has been answered
\* SizeMismatch, on a record that holds a chunk.
C9_Witness ==
    \E w \in Workers, r \in tucs :
        /\ pc[w] = "done" /\ resp[w].op = "PATCH"
        /\ resp[w].kind = "SizeMismatch"
        /\ r.last_chunk = 1 /\ r.total_size = MaxTotal

\* C10: once a record holds a chunk, a PATCH that carries the three headers,
\* the size of the record and another name is answered NameMismatch and
\* changes nothing; the name of a record that holds a chunk never changes;
\* and a record without a chunk has no name, whatever PATCH was rejected.
C10_NameFixedByFirstChunk ==
    [][/\ \A w \in Workers :
            TakesUpChunk(w) =>
            \A r \in tucs, o \in OffsetHeaders, n \in NameHeaders,
               d \in Payloads :
                (/\ r.last_chunk >= 1
                 /\ o # NoHeader /\ n # NoHeader /\ n[1] # r.upload_name
                 /\ ReceiveChunk(w, RequestFor(r, o, n, d)))
                => RejectedWith(w, "NameMismatch")
       /\ \A r \in tucs, q \in tucs' :
            (r.upload_id = q.upload_id /\ r.last_chunk >= 1
             /\ q.last_chunk >= 1)
            => q.upload_name = r.upload_name
       /\ \A q \in tucs' : q.last_chunk = 0 => q.upload_name = ""]_vars

\* A PATCH has been answered NameMismatch on a record that holds a chunk
\* and keeps the name of that chunk.
C10_Witness ==
    \E w \in Workers, r \in tucs :
        /\ pc[w] = "done" /\ resp[w].op = "PATCH"
        /\ resp[w].kind = "NameMismatch"
        /\ r.last_chunk >= 1 /\ r.upload_name \in FileNames

\* Handler w saves, in this step, the record of a chunk that brings the
\* offset to the total size, and answers 200
Completes(w) ==
    /\ pc[w] = "save" /\ pc'[w] = "done"
    /\ resp'[w].kind = "OK"
    /\ loc[w][1].tuc.offset + loc[w][1].file_data_len
           = loc[w][1].tuc.total_size

\* C11: when the PATCH that brings the offset to the total size is answered
\* 200, the record of the upload is gone, none of the chunk files
\* <file_id>_1 .. <file_id>_<last_chunk> is left, and there is exactly one
\* TemporaryUpload row and one stored file for the upload, the row carrying
\* the upload_id, the file_id, the name of the first chunk and the user of
\* the POST.
C11_CompletedUploadIsHandedOver ==
    [][\A w \in Workers, r \in tucs :
        (Completes(w) /\ r.upload_id = loc[w][1].req.chunk_id)
        => LET name == IF r.last_chunk = 0 THEN loc[w][1].req.uname[1]
                       ELSE r.upload_name
           IN /\ \A q \in tucs' : q.upload_id # r.upload_id
              /\ \A f \in files' :
                     ~(f.dir = r.upload_dir /\ f.alt = 0
                       /\ f.idx \in 1..(r.last_chunk + 1))
              /\ {u \in uploads' : u.upload_id = r.upload_id}
                     = {[upload_id |-> r.upload_id, file_id |-> r.file_id,
                         file |-> 0, upload_name |-> name,
                         uploaded_by |-> r.uploaded_by]}
              /\ Cardinality({f \in files' :
                     f.dir = r.upload_dir /\ f.idx = 0}) = 1]_vars

\* An upload of alice, sent in two chunks, has been handed over.
C11_Witness ==
    \E w \in Workers, u \in uploads :
        /\ pc[w] = "done" /\ resp[w].op = "PATCH" /\ resp[w].kind = "OK"
        /\ u.uploaded_by = "alice" /\ u.upload_name = "b.txt"
        /\ Len(accepted[u.upload_id]) = 2
        /\ tucs = {}
        /\ \A f \in files : f.idx = 0

\* C12: a HEAD for an existing upload returns the offset of its record and
\* changes neither the rows nor the files; and a PATCH that then claims that
\* offset, with the size of the record, a name that fits and a bytes or str
\* body, passes the checks and is answered 200.
C12_ResumeOffsetIsAccepted ==
    [][\A w \in Workers :
        /\ (pc[w] = "idle" /\ pc'[w] = "done" /\ resp'[w].op = "HEAD"
            /\ resp'[w].kind = "OK")
           => /\ \E r \in tucs : resp'[w].offset = <<r.offset>>
              /\ tucs' = tucs /\ files' = files /\ uploads' = uploads
        /\ TakesUpChunk(w)
           => \A r \in tucs, n \in NameHeaders, d \in Payloads :
                  (/\ Join(BaseLocation, r.upload_dir) \in dirs
                   /\ NameFits(r, n)
                   /\ d.type \in {"bytes", "str"}
                   /\ ReceiveChunk(w, RequestFor(r, <<r.offset>>, n, d)))
                  => pc'[w] = "store"
        /\ (pc[w] = "save" /\ pc'[w] = "done") => resp'[w].kind = "OK"]_vars

\* The numbers 1..n of the chunk files <file_id>_<i> that are not in
\* directory dir
Lost(dir, n) ==
    {i \in 1..n : \A f \in files : ~(f.dir = dir /\ f.idx = i /\ f.alt = 0)}

\* C13: when the record saved by a PATCH is complete and one of the chunk
\* files 1..last_chunk is gone, the PATCH is answered ChunkMissing, the
\* exception names the lowest missing number, no TemporaryUpload row and no
\* file is created, no file is removed and the record stays, complete.
C13_LostChunkStopsRebuild ==
    [][\A w \in Workers :
        (pc[w] = "save" /\ pc'[w] = "done")
        => LET t == loc[w][1].tuc
               n == t.last_chunk + 1
               lost == Lost(t.upload_dir, n)
           IN (/\ lost # {}
               /\ \/ t.upload_complete
                  \/ t.offset + loc[w][1].file_data_len = t.total_size)
              => /\ resp'[w].kind = "ChunkMissing"
                 /\ \E q \in tucs' :
                        /\ q.upload_id = t.upload_id
                        /\ q.upload_complete /\ q.last_chunk = n
                        /\ StoreUpload(q, files, uploads, tucs').chunk
                               = CHOOSE i \in lost : \A j \in lost : i <= j
                 /\ uploads' = uploads
                 /\ files' = files]_vars

\* A PATCH has been answered ChunkMissing for an upload of two chunks whose
\* first chunk file is gone and whose second is still there.
C13_Witness ==
    \E w \in Workers, r \in tucs :
        /\ pc[w] = "done" /\ resp[w].kind = "ChunkMissing"
        /\ r.upload_complete /\ r.last_chunk = 2
        /\ Lost(r.upload_dir, 2) = {1}
        /\ uploads = {}

\* C14: a TemporaryUploadChunked row disappears only in the step of a PATCH
\* for it that is answered 200 after the rebuilt file has been stored with
\* the declared size and its TemporaryUpload row written; and after a PATCH
\* answered ChunkMissing or SizeVerificationFailed the row is there, marked
\* complete.
C14_RecordOutlivesFailures ==
    [][/\ \A r \in tucs :
            (\A q \in tucs' : q.upload_id # r.upload_id)
            => \E w \in Workers :
                   /\ pc[w] = "save" /\ pc'[w] = "done"
                   /\ loc[w][1].req.chunk_id = r.upload_id
                   /\ resp'[w].op = "PATCH" /\ resp'[w].kind = "OK"
                   /\ \E u \in uploads', f \in files' :
                          /\ u.upload_id = r.upload_id /\ u.file = f.alt
                          /\ f.dir = r.upload_dir /\ f.idx = 0 /\ f.alt = 0
                          /\ Len(f.data) = r.total_size
       /\ \A w \in Workers :
            (/\ pc[w] = "save" /\ pc'[w] = "done"
             /\ resp'[w].kind \in {"ChunkMissing", "SizeVerificationFailed"})
            => \E q \in tucs' :
                   /\ q.upload_id = loc[w][1].req.chunk_id
                   /\ q.upload_complete]_vars

\* A PATCH has been answered SizeVerificationFailed and its record is
\* there, complete, beside the TemporaryUpload row the rebuild wrote.
C14_Witness ==
    \E w \in Workers, r \in tucs :
        /\ pc[w] = "done" /\ resp[w].kind = "SizeVerificationFailed"
        /\ r.upload_complete
        /\ \E u \in uploads : u.upload_id = r.upload_id

\* C15: a POST creates a record and a directory only for an Upload-Length
\* greater than 0: every record has a total size above 0, and every upload
\* whose POST was accepted declared a length above 0.
C15_PositiveLengthOnly ==
    /\ \A r \in tucs : r.total_size > 0
    /\ \A u \in UploadIds :
           AbsJoin(BaseLocation, u) \in dirs
           => declared[u] # NoHeader /\ declared[u][1] > 0

\* C16: under every interleaving of POST requests, a POST that succeeds
\* inserts a record whose upload id had none, for a directory no earlier
\* successful POST and no other POST in progress has; a POST that finds its
\* directory present or the base location missing is answered
\* StorageUnavailable; and a POST answered StorageUnavailable leaves the
\* records, the directories and the files as they were.
C16_NoInitiateCollision ==
    [][\A w \in Workers :
         /\ (pc[w] = "create" /\ pc'[w] = "done")
            => /\ resp'[w].kind = "OK"
               /\ ~HasRow(tucs, loc[w][1].upload_id)
               /\ tucs' = tucs \cup {GetRow(tucs', loc[w][1].upload_id)}
               /\ loc[w][1].chunk_dir = Join(BaseLocation, loc[w][1].upload_id)
               /\ \A u \in PostIds :
                      AbsJoin(BaseLocation, u) = loc[w][1].chunk_dir
                      => declared[u] = NoHeader
               /\ \A v \in Workers \ {w} :
                      pc[v] \in {"create"}
                      => loc[v][1].chunk_dir # loc[w][1].chunk_dir
         /\ (/\ pc[w] = "idle" /\ pc'[w] # "idle" /\ resp'[w].op = "POST"
             /\ BaseLocation \notin dirs)
            => pc'[w] = "done" /\ resp'[w].kind = "StorageUnavailable"
         /\ (/\ pc[w] = "mkdir" /\ pc'[w] # "mkdir"
             /\ loc[w][1].chunk_dir \in dirs)
            => pc'[w] = "done" /\ resp'[w].kind = "StorageUnavailable"
         /\ (/\ pc[w] # "done" /\ pc'[w] = "done" /\ resp'[w].op = "POST"
             /\ resp'[w].kind = "StorageUnavailable")
            => store' = store]_vars

\* A POST for the directory of u1 has been answered StorageUnavailable
\* while the POST of the other handler has made that directory and not yet
\* saved its record.
C16_Witness ==
    \E w \in Workers, v \in Workers :
        /\ pc[w] = "done" /\ resp[w].op = "POST"
        /\ resp[w].kind = "StorageUnavailable"
        /\ loc[w] # NoLocals
        /\ pc[v] = "create"
        /\ loc[v][1].chunk_dir = loc[w][1].chunk_dir
        /\ loc[v][1].upload_id # loc[w][1].upload_id

\* The directory is the storage root or lies below it
InsideRoot(dir) ==
    /\ Len(dir) >= Len(BaseLocation)
    /\ SubSeq(dir, 1, Len(BaseLocation)) = BaseLocation

\* C17: a POST whose upload id resolves to a directory that is neither the
\* storage root nor below it creates no directory and no record: every
\* directory made and every record's upload_dir lies inside the root.
C17_UploadsStayInsideRoot ==
    /\ \A d \in dirs : InsideRoot(d)
    /\ \A r \in tucs : InsideRoot(Join(BaseLocation, r.upload_dir))

\* The order in which C18 names the checks of a PATCH
CheckOrder ==
    <<"UnknownUpload", "MissingMetadata", "SizeMismatch", "NameMismatch",
      "OffsetMismatch", "UnsupportedPayload">>

\* The check of ks that comes first in CheckOrder
Earliest(ks) ==
    CheckOrder[Min({i \in DOMAIN CheckOrder : CheckOrder[i] \in ks})]

\* Handler w takes up a PATCH whose chunk id is not blank
TakesUpNamedChunk(w) ==
    /\ TakesUpChunk(w)
    /\ resp'[w].kind # "MissingChunkId"

\* C18: a PATCH with a chunk id that does not pass some of the six checks
\* is answered with the error of the first of them in the order
\* UnknownUpload, MissingMetadata, SizeMismatch, NameMismatch,
\* OffsetMismatch, UnsupportedPayload, and changes no file and no record;
\* a PATCH is answered with one of the six errors only for a check it does
\* not pass; and files and records change only for a PATCH that passes all
\* six.
C18_ChecksInOrder ==
    [][\A w \in Workers :
         /\ (TakesUpNamedChunk(w) /\ resp'[w].fails # {})
            => /\ pc'[w] = "done"
               /\ resp'[w].kind = Earliest(resp'[w].fails)
               /\ store' = store
         /\ (/\ TakesUpNamedChunk(w)
             /\ \E i \in DOMAIN CheckOrder : resp'[w].kind = CheckOrder[i])
            => resp'[w].kind \in resp'[w].fails
         /\ (Busy(w) /\ pc'[w] # pc[w] /\ store' # store)
            => resp[w].fails = {}]_vars

\* A PATCH that passes neither the name, nor the offset, nor the payload
\* check has been answered.
C18_Witness ==
    \E w \in Workers :
        /\ pc[w] = "done" /\ resp[w].op = "PATCH"
        /\ {"NameMismatch", "OffsetMismatch", "UnsupportedPayload"}
               \subseteq resp[w].fails
        /\ "SizeMismatch" \notin resp[w].fails

\* A chunk of the upload in dir was stored although a file of its name was
\* there: storage.save gave it another name
StoredBesideOrphan(dir) ==
    \E f \in files : f.dir = dir /\ f.idx > 0 /\ f.alt > 0

\* C19: after a PATCH whose chunk file was written and whose record was not
\* saved, every PATCH of that upload whose record is saved is answered 200,
\* and the file of the TemporaryUpload made when the upload completes holds
\* the bytes of the chunks whose records were saved, in their order.
C19_RetryReplacesOrphan ==
    [][\A w \in Workers :
         (/\ pc[w] = "save" /\ pc'[w] = "done"
          /\ resp'[w].kind # "CommitFailure"
          /\ StoredBesideOrphan(loc[w][1].tuc.upload_dir))
         => /\ resp'[w].kind = "OK"
            /\ \A tu \in uploads' \ uploads :
                   \A f \in files' :
                       (f.dir = tu.upload_id /\ f.idx = 0 /\ f.alt = tu.file)
                       => f.data = Concat([i \in 1..Len(accepted'[tu.upload_id])
                                  |-> accepted'[tu.upload_id][i].bytes])]_vars

\* C20: in every state in which no PATCH is between its checks and its
\* response, an upload that has a TemporaryUpload row has no record and no
\* chunk file left, and the stored file of the row has the declared size.
C20_ReassemblyAllOrNothing ==
    (\A w \in Workers : ~Busy(w))
    => \A tu \in uploads :
           /\ ~HasRow(tucs, tu.upload_id)
           /\ \A f \in files : f.dir = tu.upload_id => f.idx = 0
           /\ \A f \in ArtifactFiles(tu.upload_id) :
                  Len(f.data) = declared[tu.upload_id][1]

====
